---- MODULE Spec2Model ----
(***************************************************************************)
(* LSM-EI: log-structured memory with an embedding index.                  *)
(*                                                                         *)
(* Two files live in one directory: conversations.log (append-only JSONL)  *)
(* and embeddings.arrow (an Arrow IPC stream of (vector, norm, offset,     *)
(* length) rows).  Memory drives AppendLog, EmbeddingIndex and the         *)
(* embedding provider.  Every operation of Memory is modelled from its     *)
(* code; an operation that awaits the embedding provider is cut at the     *)
(* await into the part before it and the continuation after it.            *)
(***************************************************************************)
EXTENDS Integers, Sequences, FiniteSets, TLC

\* ------------------------------------------------------------------ bounds
\* Largest number of lines the log may hold before append is no longer tried.
MaxTurns == 3
\* The smaller of the two chunk sizes a store may be configured with.
MinChunk == 4

\* Calls of one store that wait for the embedding provider at one time.
MaxInFlight == 2

\* ------------------------------------------------------ inputs of the model
\* config.chunkSize of a store: one that a single line reaches, and one that
\* two of the shortest lines stay below.
ChunkSizes == {MinChunk, 2 * MinChunk + 1}

\* The turns a caller may append.  Text is a sequence of characters; "LF" is
\* a line feed inside the text.
Turns ==
    { [role |-> "user", text |-> <<"x">>],
      [role |-> "assistant", text |-> <<"LF">>] }

\* The vectors the embedding provider may answer with (config.embedding is
\* any provider of fixed dimension; <<0, 0>> is the zero vector).
Vectors == { <<0, 0>>, <<1, 0>> }

\* The opts a caller may pass to query: none, or <<topK>>.
NoOpts == <<>>
Opts == { NoOpts, <<-1>>, <<1>> }

\* ------------------------------------------------------------ small helpers
Max(a, b) == IF a >= b THEN a ELSE b
Min(a, b) == IF a <= b THEN a ELSE b

RECURSIVE Concat(_)
Concat(seqs) ==
    IF seqs = <<>> THEN <<>> ELSE Head(seqs) \o Concat(Tail(seqs))

RECURSIVE SumSeq(_)
SumSeq(s) == IF s = <<>> THEN 0 ELSE Head(s) + SumSeq(Tail(s))

\* Array.prototype.slice(start, end) on a 1-based sequence, negative end
\* counting from the back as in JavaScript.
Slice(s, start, end) ==
    LET n  == Len(s)
        e0 == IF end < 0 THEN Max(n + end, 0) ELSE Min(end, n)
        s0 == IF start < 0 THEN Max(n + start, 0) ELSE Min(start, n)
    IN  IF e0 <= s0 THEN <<>> ELSE SubSeq(s, s0 + 1, e0)

\* Math.sqrt on the squares the model's vectors produce.
Sqrt(x) == CHOOSE r \in 0..x : r * r <= x /\ (r + 1) * (r + 1) > x

\* ------------------------------------------------------------------ log.ts
LF == "LF"
NUL == "NUL"

\* JSON escaping of one character of a string: a line feed becomes the two
\* bytes backslash, n; the other characters are written as they are.
EscapeChar(c) == IF c = LF THEN <<"\\", "n">> ELSE <<c>>

RECURSIVE EscapeText(_)
EscapeText(t) ==
    IF t = <<>> THEN <<>> ELSE EscapeChar(Head(t)) \o EscapeText(Tail(t))

\* JSON.stringify writing the text as it is, a line feed unescaped.
stringify_unescaped(obj) == <<"ts", obj.role>> \o obj.text

\* JSON.stringify({ ts: Date.now(), ...turn }): the keys in insertion order,
\* ts first.  The value of the clock is one opaque byte.
stringify(obj) == <<"ts", obj.role>> \o EscapeText(obj.text)

\* AppendLog.append: data = line + '\n'.
lineData(line) == line \o <<LF>>

\* content.split('\n') on complete lines: the lines of a text without their
\* terminators; bytes after the last terminator are a last, partial line.
RECURSIVE splitLines(_, _)
splitLines(text, cur) ==
    IF text = <<>> THEN (IF cur = <<>> THEN <<>> ELSE <<cur>>)
    ELSE IF Head(text) = LF THEN <<cur>> \o splitLines(Tail(text), <<>>)
    ELSE splitLines(Tail(text), Append(cur, Head(text)))

\* The string of a JSON text decoded: backslash n is a line feed, a raw
\* line feed or a backslash before anything else is a syntax error.
Unparsable == [ok |-> FALSE, value |-> <<>>]

RECURSIVE UnescapeText(_)
UnescapeText(t) ==
    IF t = <<>> THEN [ok |-> TRUE, value |-> <<>>]
    ELSE IF Head(t) \in {LF, NUL} THEN Unparsable
    ELSE IF Head(t) = "\\"
         THEN IF Len(t) >= 2 /\ t[2] = "n"
              THEN LET rest == UnescapeText(SubSeq(t, 3, Len(t)))
                   IN  IF rest.ok THEN [ok |-> TRUE, value |-> <<LF>> \o rest.value]
                       ELSE Unparsable
              ELSE Unparsable
    ELSE LET rest == UnescapeText(Tail(t))
         IN  IF rest.ok THEN [ok |-> TRUE, value |-> <<Head(t)>> \o rest.value]
             ELSE Unparsable

\* JSON.parse of one line of the log: the object with the keys the line
\* holds, ts, role and text.
parse(line) ==
    IF Len(line) < 2 \/ line[1] # "ts" \/ line[2] \in {LF, NUL, "\\"}
    THEN Unparsable
    ELSE LET text == UnescapeText(SubSeq(line, 3, Len(line)))
         IN  IF text.ok
             THEN [ok |-> TRUE,
                   value |-> [ts |-> line[1], role |-> line[2], text |-> text.value]]
             ELSE Unparsable

\* AppendLog.read: Buffer.alloc(length) is zero-filled and readSync fills
\* what the file has from offset on; the rest stays NUL.
read(file, offset, length) ==
    [i \in 1..length |->
        IF offset + i <= Len(file) THEN file[offset + i] ELSE NUL]

\* -------------------------------------------------------- embedding-index.ts
EOS_SIZE == 8

dimensions == Len(CHOOSE v \in Vectors : TRUE)

\* L2 norm, as entriesToBatch and similarity.norm compute it.
norm(v) == Sqrt(SumSeq([i \in 1..Len(v) |-> v[i] * v[i]]))

\* entriesToBatch: one record batch of n rows, the norm computed at write time.
entriesToBatch(entries) ==
    [i \in 1..Len(entries) |->
        [vector |-> entries[i].vector,
         norm   |-> norm(entries[i].vector),
         offset |-> entries[i].offset,
         length |-> entries[i].length]]

\* The Arrow IPC stream: a schema message, the record batch messages, and
\* the end-of-stream marker (continuation 0xFFFFFFFF and a zero length).
\* Bytes are numbers; 83 opens the schema message and 66 a batch message.
SchemaMsg == <<83, dimensions, 4>>
EOS == <<255, 255, 255, 255, 0, 0, 0, 0>>

RowBytes(r) == r.vector \o <<r.norm, r.offset, r.length>>
RowSize == dimensions + 3

BatchMsg(batch) ==
    <<66, Len(batch)>> \o Concat([i \in 1..Len(batch) |-> RowBytes(batch[i])])

\* RecordBatchStreamWriter.writeAll(new Table(schema, batches)).
writeAll(batches) ==
    SchemaMsg \o Concat([i \in 1..Len(batches) |-> BatchMsg(batches[i])]) \o EOS

\* schemaHeaderSize: the empty table serialized, minus the marker.
schemaHeaderSize == Len(writeAll(<<>>)) - EOS_SIZE

\* A row decoded with the offset and length columns taken for each other.
DecodeRow_swapped(b) ==
    [vector |-> SubSeq(b, 1, dimensions),
     norm   |-> b[dimensions + 1],
     offset |-> b[dimensions + 3],
     length |-> b[dimensions + 2]]

\* One row decoded from the bytes of a batch body.
DecodeRow(b) ==
    [vector |-> SubSeq(b, 1, dimensions),
     norm   |-> b[dimensions + 1],
     offset |-> b[dimensions + 2],
     length |-> b[dimensions + 3]]

\* The outcome of decoding a stream: the batches, or ok = FALSE when a
\* message cannot be decoded.
Decoded(batches) == [ok |-> TRUE, batches |-> batches]
Undecodable == [ok |-> FALSE, batches |-> <<>>]

\* RecordBatchReader over the bytes after the schema message: the batches in
\* order until the marker or the end of the bytes.
ReadMessages[b \in Seq(Int)] ==
    IF b = <<>> THEN Decoded(<<>>)
    ELSE IF Len(b) >= EOS_SIZE /\ SubSeq(b, 1, EOS_SIZE) = EOS THEN Decoded(<<>>)
    ELSE IF Len(b) < 2 \/ b[1] # 66 THEN Undecodable
    ELSE IF b[2] \notin 0..Len(b) \/ Len(b) < 2 + b[2] * RowSize THEN Undecodable
    ELSE LET n    == b[2]
             body == SubSeq(b, 3, 2 + n * RowSize)
             rows == [i \in 1..n |->
                        DecodeRow(SubSeq(body, (i - 1) * RowSize + 1, i * RowSize))]
             rest == ReadMessages[SubSeq(b, 3 + n * RowSize, Len(b))]
         IN  IF rest.ok THEN Decoded(<<rows>> \o rest.batches) ELSE Undecodable

\* RecordBatchReader.from(bytes): the batches of a stream file.
ReadStream(bytes) ==
    IF Len(bytes) < Len(SchemaMsg) \/ SubSeq(bytes, 1, Len(SchemaMsg)) # SchemaMsg
    THEN Undecodable
    ELSE ReadMessages[SubSeq(bytes, Len(SchemaMsg) + 1, Len(bytes))]

\* extractBatch over several batches: the rows, batch after batch.
extractBatch(batches) == Concat(batches)

\* The embeddings.arrow file: absent, or its bytes.
NoFile == [exists |-> FALSE, bytes |-> <<>>]

\* readAll as the first version of the index had it: the file alone.
readAll_diskOnly(file, pending) ==
    LET disk == IF file.exists THEN ReadStream(file.bytes) ELSE Decoded(<<>>)
    IN  [ok   |-> disk.ok,
         rows |-> IF disk.ok THEN extractBatch(disk.batches) ELSE <<>>]

\* readAll without the existsSync test: readFileSync throws on a missing file.
readAll_noExistsTest(file, pending) ==
    LET disk == IF file.exists THEN ReadStream(file.bytes) ELSE Undecodable
    IN  [ok   |-> disk.ok,
         rows |-> IF disk.ok
                  THEN extractBatch(disk.batches) \o extractBatch(pending)
                  ELSE <<>>]

\* EmbeddingIndex.readAll: the rows on disk, then the rows still buffered;
\* ok = FALSE when reading the file throws.
readAll(file, pending) ==
    LET disk == IF file.exists THEN ReadStream(file.bytes) ELSE Decoded(<<>>)
    IN  [ok   |-> disk.ok,
         rows |-> IF disk.ok
                  THEN extractBatch(disk.batches) \o extractBatch(pending)
                  ELSE <<>>]

\* A flush that appends after the old end-of-stream marker, without the
\* truncateSync.
flushFile_noTruncate(file, pending) ==
    IF pending = <<>> THEN file
    ELSE LET fullStream == writeAll(pending)
         IN  IF ~file.exists
             THEN [exists |-> TRUE, bytes |-> fullStream]
             ELSE [exists |-> TRUE,
                   bytes  |-> file.bytes \o
                       SubSeq(fullStream, schemaHeaderSize + 1, Len(fullStream))]

\* A flush that appends the whole serialized stream, schema header included.
flushFile_keepHeader(file, pending) ==
    IF pending = <<>> THEN file
    ELSE LET fullStream == writeAll(pending)
         IN  IF ~file.exists
             THEN [exists |-> TRUE, bytes |-> fullStream]
             ELSE [exists |-> TRUE,
                   bytes  |-> SubSeq(file.bytes, 1,
                                     Max(Len(file.bytes) - EOS_SIZE, 0))
                              \o fullStream]

\* EmbeddingIndex.flush: the file after the buffered batches were written.
flushFile(file, pending) ==
    IF pending = <<>> THEN file
    ELSE LET fullStream == writeAll(pending)
         IN  IF ~file.exists
             THEN [exists |-> TRUE, bytes |-> fullStream]
             ELSE LET batchBytesWithEOS ==
                          SubSeq(fullStream, schemaHeaderSize + 1, Len(fullStream))
                      newSize   == Len(file.bytes) - EOS_SIZE
                      truncated == SubSeq(file.bytes, 1, Max(newSize, 0))
                  IN  [exists |-> TRUE, bytes |-> truncated \o batchBytesWithEOS]

\* EmbeddingIndex.lastIndexedEnd: max(offset + length) over all rows, 0 if none.
RECURSIVE MaxEnd(_)
MaxEnd(rows) ==
    IF rows = <<>> THEN 0
    ELSE Max(Head(rows).offset + Head(rows).length, MaxEnd(Tail(rows)))

lastIndexedEnd(file, pending) == MaxEnd(readAll(file, pending).rows)

\* ------------------------------------------------------------ similarity.ts
\* A score dot / (queryNorm * vNorm) is kept as the fraction it is computed
\* from; den > 0 whenever a score is computed.
Score(num, den) == [num |-> num, den |-> den]

\* The comparison turned round: a.score < b.score.
Greater_less(a, b) == a.num * b.den < b.num * a.den

\* a.score > b.score, the fractions compared exactly.
Greater(a, b) == a.num * b.den > b.num * a.den

dot(q, v) == SumSeq([j \in 1..Len(q) |-> q[j] * v[j]])

\* The loop without the test of the stored norm: every row gets a score.
RECURSIVE scoreRows_noSkip(_, _, _, _)
scoreRows_noSkip(q, queryNorm, rows, i) ==
    IF i > Len(rows) THEN <<>>
    ELSE <<[index |-> i - 1,
            score |-> Score(dot(q, rows[i].vector), queryNorm * rows[i].norm)]>>
         \o scoreRows_noSkip(q, queryNorm, rows, i + 1)

\* The loop of topKSimilarity: one { index, score } per stored vector whose
\* stored norm is not zero, in index order (indexes are 0-based).
RECURSIVE scoreRows(_, _, _, _)
scoreRows(q, queryNorm, rows, i) ==
    IF i > Len(rows) THEN <<>>
    ELSE LET vNorm == rows[i].norm
             rest  == scoreRows(q, queryNorm, rows, i + 1)
         IN  IF vNorm = 0 THEN rest
             ELSE <<[index |-> i - 1,
                     score |-> Score(dot(q, rows[i].vector), queryNorm * vNorm)]>>
                  \o rest

\* results.sort((a, b) => b.score - a.score): a stable sort, descending.
RECURSIVE insertByScore(_, _)
insertByScore(sorted, x) ==
    IF sorted = <<>> THEN <<x>>
    ELSE IF Greater(x.score, Head(sorted).score) THEN <<x>> \o sorted
    ELSE <<Head(sorted)>> \o insertByScore(Tail(sorted), x)

RECURSIVE sortByScore(_)
sortByScore(s) ==
    IF s = <<>> THEN <<>>
    ELSE insertByScore(sortByScore(SubSeq(s, 1, Len(s) - 1)), s[Len(s)])

topKSimilarity(q, rows, topK) ==
    LET queryNorm == norm(q)
    IN  IF queryNorm = 0 THEN <<>>
        ELSE Slice(sortByScore(scoreRows(q, queryNorm, rows, 1)), 0, topK)

\* ---------------------------------------------------------------- memory.ts
VARIABLES
    logFile,              \* bytes of conversations.log on disk
    indexFile,            \* embeddings.arrow on disk: [exists, bytes]
    alive,                \* a Memory object exists (the process has not crashed)
    fdOpen,               \* AppendLog.fd is an open descriptor
    currentOffset,        \* AppendLog.currentOffset
    pendingBatches,       \* EmbeddingIndex.pendingBatches
    chunkSize,            \* Memory.chunkSize
    chunkStartOffset,     \* Memory.chunkStartOffset
    bytesSinceLastEmbed,  \* Memory.bytesSinceLastEmbed
    inflight,             \* calls awaiting embedding.embed, one record each
    ret,                  \* outcome of the call that settled last
    failed,               \* history: the chunk whose embed was rejected and
                          \* that no row has covered since, <<>> if none
    embeddedEnd           \* history: the end of the furthest chunk whose embed
                          \* has resolved, in this session or an earlier one

vars == <<logFile, indexFile, alive, fdOpen, currentOffset, pendingBatches,
          chunkSize, chunkStartOffset, bytesSinceLastEmbed, inflight, ret, failed,
                   embeddedEnd>>

disk == <<logFile, indexFile>>
chunkState == <<chunkStartOffset, bytesSinceLastEmbed>>

\* What a settled call hands to its caller.
Returned(op, value) ==
    [op |-> op, status |-> "ok", value |-> value, error |-> "none"]
Thrown(op, err) ==
    [op |-> op, status |-> "error", value |-> <<>>, error |-> err]

\* What can be thrown: the rejection of embedding.embed, rethrown as it is;
\* EBADF of writeSync and closeSync on a closed descriptor; the error of the
\* Arrow reader on bytes it cannot decode.
EmbeddingError == "EmbeddingError"
EBADF == "EBADF"
FormatError == "FormatError"

\* The rows the index holds: those in the file, then those in the buffer.
persistedRows ==
    IF indexFile.exists THEN Concat(ReadStream(indexFile.bytes).batches) ELSE <<>>
bufferedRows == Concat(pendingBatches)
indexRows == persistedRows \o bufferedRows

\* Complete lines in the log.
lineCount == Cardinality({i \in 1..Len(logFile) : logFile[i] = LF})

\* No call of the store is in progress.
Idle == inflight = <<>>

Remove(s, i) == SubSeq(s, 1, i - 1) \o SubSeq(s, i + 1, Len(s))

\* A recovery that starts the chunk where the index ends but counts the
\* whole log.
recovered_wholeLogCounted(end, logEnd) ==
    IF end < logEnd
    THEN [chunkStartOffset |-> end, bytesSinceLastEmbed |-> logEnd]
    ELSE [chunkStartOffset |-> logEnd, bytesSinceLastEmbed |-> 0]

\* A recovery that takes the whole log for un-indexed, whatever the index
\* holds.
recovered_fromZero(end, logEnd) ==
    [chunkStartOffset |-> 0, bytesSinceLastEmbed |-> logEnd]

\* The constructor without recovery: the chunk always starts at the log end.
recovered_atLogEnd(end, logEnd) ==
    [chunkStartOffset |-> logEnd, bytesSinceLastEmbed |-> 0]

\* The constructor's recovery: the chunk state from the end of the index and
\* the end of the log.
recovered(end, logEnd) ==
    IF end < logEnd
    THEN [chunkStartOffset |-> end, bytesSinceLastEmbed |-> logEnd - end]
    ELSE [chunkStartOffset |-> logEnd, bytesSinceLastEmbed |-> 0]

\* A constructor that opens the log in a truncating mode (w+ for a+).
Constructed_truncating(cs) ==
    /\ alive' = TRUE
    /\ fdOpen' = TRUE
    /\ logFile' = <<>>
    /\ currentOffset' = 0
    /\ pendingBatches' = <<>>
    /\ chunkSize' = cs
    /\ chunkStartOffset' = 0
    /\ bytesSinceLastEmbed' = 0
    /\ inflight' = <<>>
    /\ ret' = Returned("open", <<>>)
    /\ UNCHANGED <<indexFile, failed, embeddedEnd>>

\* The state a constructor run leaves: AppendLog opened at the end of the
\* file, an EmbeddingIndex with nothing buffered, and the chunk state
\* recovered from the two files.
Constructed(cs) ==
    LET r == recovered(lastIndexedEnd(indexFile, <<>>), Len(logFile))
    IN  /\ alive' = TRUE
        /\ fdOpen' = TRUE
        /\ currentOffset' = Len(logFile)
        /\ pendingBatches' = <<>>
        /\ chunkSize' = cs
        /\ chunkStartOffset' = r.chunkStartOffset
        /\ bytesSinceLastEmbed' = r.bytesSinceLastEmbed
        /\ inflight' = <<>>
        /\ ret' = Returned("open", <<>>)
        /\ UNCHANGED <<disk, failed,
                   embeddedEnd>>

Init ==
    /\ logFile = <<>>
    /\ indexFile = NoFile
    /\ alive = TRUE
    /\ fdOpen = TRUE
    /\ currentOffset = 0
    /\ pendingBatches = <<>>
    /\ chunkSize \in ChunkSizes
    /\ chunkStartOffset = 0
    /\ bytesSinceLastEmbed = 0
    /\ inflight = <<>>
    /\ ret = Returned("open", <<>>)
    /\ failed = <<>>
    /\ embeddedEnd = 0

\* new Memory(config) on the directory, after close() or after a crash.
Open(cs) ==
    /\ ~fdOpen
    /\ Idle
    /\ readAll(indexFile, <<>>).ok
    /\ Constructed(cs)

\* The threshold test with > for >=.
thresholdReached_strict(bytes, size) == bytes > size

\* The test of append that decides whether the chunk is flushed.
thresholdReached(bytes, size) == bytes >= size

\* close flushing a final chunk even when no byte is counted.
chunkPending_always(bytes) == bytes >= 0

\* close flushing a final chunk only when it is a full one.
chunkPending_whenFull(bytes) == bytes >= chunkSize

\* The test of close that decides whether a final chunk is flushed.
chunkPending(bytes) == bytes > 0

\* flushChunk taking the log position for the start of the chunk.
flushChunkCall_atPosition(op, file, offset, length) ==
    [op        |-> op,
     offset    |-> Len(file),
     length    |-> length,
     chunkText |-> read(file, Len(file), length)]

\* flushChunk up to its await: the call to embedding.embed, with the range
\* and the text of the chunk it read from the log.
flushChunkCall(op, file, offset, length) ==
    [op        |-> op,
     offset    |-> offset,
     length    |-> length,
     chunkText |-> read(file, offset, length)]

\* The batches after flushChunk buffered the row of an embedded chunk.
buffered(batches, call, vector) ==
    Append(batches,
           entriesToBatch(<<[vector |-> vector,
                             offset |-> call.offset,
                             length |-> call.length]>>))

\* Memory.append up to its await: the line is written to the log and counted;
\* at the threshold flushChunk reads the chunk and calls embedding.embed.
\* On a closed descriptor writeSync throws and nothing is changed.
append(turn) ==
    /\ alive
    /\ lineCount < MaxTurns
    /\ IF ~fdOpen
       THEN /\ ret' = Thrown("append", EBADF)
            /\ UNCHANGED <<disk, alive, fdOpen, currentOffset, pendingBatches,
                           chunkSize, chunkState, inflight, failed,
                   embeddedEnd>>
       ELSE LET data   == lineData(stringify(turn))
                length == Len(data)
                total  == bytesSinceLastEmbed + length
            IN  /\ logFile' = logFile \o data
                /\ currentOffset' = currentOffset + length
                /\ bytesSinceLastEmbed' = total
                /\ IF thresholdReached(total, chunkSize)
                   THEN /\ inflight' = Append(inflight,
                               flushChunkCall("append", logFile', chunkStartOffset, total))
                        /\ UNCHANGED ret
                   ELSE /\ ret' = Returned("append", <<>>)
                        /\ UNCHANGED inflight
                /\ UNCHANGED <<indexFile, alive, fdOpen, pendingBatches,
                               chunkSize, chunkStartOffset, failed,
                   embeddedEnd>>

\* The end of Memory.close without index.close().
closeFiles_noIndexClose(batches) ==
    /\ UNCHANGED indexFile
    /\ pendingBatches' = batches
    /\ IF fdOpen
       THEN fdOpen' = FALSE /\ ret' = Returned("close", <<>>)
       ELSE UNCHANGED fdOpen /\ ret' = Thrown("close", EBADF)

\* index.close() then log.close(), the end of Memory.close: the buffered
\* batches are written, the descriptor is closed (closeSync throws on a
\* descriptor that is closed already).
closeFiles(batches) ==
    /\ indexFile' = flushFile(indexFile, batches)
    /\ pendingBatches' = <<>>
    /\ IF fdOpen
       THEN fdOpen' = FALSE /\ ret' = Returned("close", <<>>)
       ELSE UNCHANGED fdOpen /\ ret' = Thrown("close", EBADF)

\* Memory.close up to its await, or to its end when no chunk is pending.
close ==
    /\ alive
    /\ IF chunkPending(bytesSinceLastEmbed)
       THEN /\ inflight' = Append(inflight,
                   flushChunkCall("close", logFile, chunkStartOffset,
                                  bytesSinceLastEmbed))
            /\ UNCHANGED <<disk, alive, fdOpen, currentOffset, pendingBatches,
                           chunkSize, chunkState, ret, failed,
                   embeddedEnd>>
       ELSE /\ closeFiles(pendingBatches)
            /\ UNCHANGED <<logFile, alive, currentOffset, chunkSize, chunkState,
                           inflight, failed,
                   embeddedEnd>>

\* A query that asks the provider twice for the vector of its text.
query_embedTwice(opts) ==
    /\ alive
    /\ inflight' = inflight \o << [op |-> "query", opts |-> opts],
                                  [op |-> "query", opts |-> opts] >>
    /\ UNCHANGED <<disk, alive, fdOpen, currentOffset, pendingBatches, chunkSize,
                   chunkState, ret, failed,
                   embeddedEnd>>

\* Memory.query up to its await on embedding.embed(text).
query(opts) ==
    /\ alive
    /\ inflight' = Append(inflight, [op |-> "query", opts |-> opts])
    /\ UNCHANGED <<disk, alive, fdOpen, currentOffset, pendingBatches, chunkSize,
                   chunkState, ret, failed,
                   embeddedEnd>>

\* flushChunk after embed resolved with vector: the row is buffered, the
\* chunk restarts at the log position; append then returns.
flushChunkResolved(i, vector) ==
    /\ inflight[i].op = "append"
    /\ pendingBatches' = buffered(pendingBatches, inflight[i], vector)
    /\ chunkStartOffset' = currentOffset
    /\ bytesSinceLastEmbed' = 0
    /\ inflight' = Remove(inflight, i)
    /\ ret' = Returned("append", <<>>)
    /\ failed' = <<>>
    /\ embeddedEnd' = Max(embeddedEnd, inflight[i].offset + inflight[i].length)
    /\ UNCHANGED <<disk, alive, fdOpen, currentOffset, chunkSize>>

\* close after the embed of its final chunk resolved: flushChunk ends, then
\* index.close() and log.close() run.
closeResolved(i, vector) ==
    /\ inflight[i].op = "close"
    /\ closeFiles(buffered(pendingBatches, inflight[i], vector))
    /\ chunkStartOffset' = currentOffset
    /\ bytesSinceLastEmbed' = 0
    /\ inflight' = Remove(inflight, i)
    /\ failed' = <<>>
    /\ embeddedEnd' = Max(embeddedEnd, inflight[i].offset + inflight[i].length)
    /\ UNCHANGED <<logFile, alive, currentOffset, chunkSize>>

\* The rejection caught and dropped: the caller sees a normal return.
flushChunkRejected_swallowed(i) ==
    /\ inflight[i].op \in {"append", "close"}
    /\ inflight' = Remove(inflight, i)
    /\ ret' = Returned(inflight[i].op, <<>>)
    /\ failed' = <<[offset |-> inflight[i].offset, length |-> inflight[i].length]>>
    /\ UNCHANGED embeddedEnd
    /\ UNCHANGED <<disk, alive, fdOpen, currentOffset, pendingBatches, chunkSize,
                   chunkState>>

\* The embed of a chunk rejected: flushChunk rethrows, and append or close
\* rethrows to its caller before anything else is done.
flushChunkRejected(i) ==
    /\ inflight[i].op \in {"append", "close"}
    /\ inflight' = Remove(inflight, i)
    /\ ret' = Thrown(inflight[i].op, EmbeddingError)
    /\ failed' = <<[offset |-> inflight[i].offset, length |-> inflight[i].length]>>
    /\ UNCHANGED embeddedEnd
    /\ UNCHANGED <<disk, alive, fdOpen, currentOffset, pendingBatches, chunkSize,
                   chunkState>>

\* The hits of a query mapped to results, each text read from the log.
queryResults(hits, rows) ==
    [h \in 1..Len(hits) |->
        LET row == rows[hits[h].index + 1]
        IN  [text   |-> read(logFile, row.offset, row.length),
             score  |-> hits[h].score,
             offset |-> row.offset,
             length |-> row.length]]

\* opts?.topK ?? 5
topKOf(opts) == IF opts = NoOpts THEN 5 ELSE opts[1]

\* query reading the log through the descriptor of the AppendLog.
queryReturn_throughDescriptor(queryVec, opts, file, batches) ==
    LET all == readAll(file, batches)
    IN  IF ~all.ok THEN Thrown("query", FormatError)
        ELSE IF Len(all.rows) = 0 THEN Returned("query", <<>>)
        ELSE IF ~fdOpen THEN Thrown("query", EBADF)
        ELSE Returned("query",
               queryResults(topKSimilarity(queryVec, all.rows, topKOf(opts)),
                            all.rows))

\* Memory.query after embed resolved with queryVec: what it returns.
queryReturn(queryVec, opts, file, batches) ==
    LET all == readAll(file, batches)
    IN  IF ~all.ok THEN Thrown("query", FormatError)
        ELSE IF Len(all.rows) = 0 THEN Returned("query", <<>>)
        ELSE Returned("query",
               queryResults(topKSimilarity(queryVec, all.rows, topKOf(opts)),
                            all.rows))

\* query writing the buffered batches to the file before it reads the index.
queryResolved_flushing(i, queryVec) ==
    /\ inflight[i].op = "query"
    /\ ret' = queryReturn(queryVec, inflight[i].opts, indexFile, pendingBatches)
    /\ inflight' = Remove(inflight, i)
    /\ indexFile' = flushFile(indexFile, pendingBatches)
    /\ pendingBatches' = <<>>
    /\ UNCHANGED <<logFile, alive, fdOpen, currentOffset, chunkSize, chunkState,
                   failed,
                   embeddedEnd>>

\* query after embed resolved with queryVec.
queryResolved(i, queryVec) ==
    /\ inflight[i].op = "query"
    /\ ret' = queryReturn(queryVec, inflight[i].opts, indexFile, pendingBatches)
    /\ inflight' = Remove(inflight, i)
    /\ UNCHANGED <<disk, alive, fdOpen, currentOffset, pendingBatches, chunkSize,
                   chunkState, failed,
                   embeddedEnd>>

\* The embed of the query text rejected: query rethrows.
queryRejected(i) ==
    /\ inflight[i].op = "query"
    /\ inflight' = Remove(inflight, i)
    /\ ret' = Thrown("query", EmbeddingError)
    /\ UNCHANGED <<disk, alive, fdOpen, currentOffset, pendingBatches, chunkSize,
                   chunkState, failed,
                   embeddedEnd>>

\* The process dies: the files stay as they are, everything in memory and
\* every call in progress is gone, the descriptor is closed by the system.
Crash ==
    /\ alive
    /\ alive' = FALSE
    /\ fdOpen' = FALSE
    /\ pendingBatches' = <<>>
    /\ inflight' = <<>>
    /\ currentOffset' = 0
    /\ chunkStartOffset' = 0
    /\ bytesSinceLastEmbed' = 0
    /\ ret' = Thrown("crash", "exit")
    /\ UNCHANGED <<disk, chunkSize, failed,
                   embeddedEnd>>

\* One store used sequentially: every call is awaited before the next one.
Next ==
    \/ Idle /\ \E t \in Turns : append(t)
    \/ Idle /\ \E o \in Opts : query(o)
    \/ Idle /\ close
    \/ \E i \in 1..Len(inflight), v \in Vectors : flushChunkResolved(i, v)
    \/ \E i \in 1..Len(inflight), v \in Vectors : closeResolved(i, v)
    \/ \E i \in 1..Len(inflight), v \in Vectors : queryResolved(i, v)
    \/ \E i \in 1..Len(inflight) : flushChunkRejected(i)
    \/ \E i \in 1..Len(inflight) : queryRejected(i)
    \/ Crash
    \/ \E cs \in ChunkSizes : Open(cs)

Spec == Init /\ [][Next]_vars

\* One store whose caller does not await: append, query and close are
\* invoked while earlier calls still wait for embedding.embed, up to
\* MaxInFlight calls at a time.  Nothing in Memory holds a call back.
InitConcurrent == Init /\ chunkSize = MinChunk

\* What the caller appends and what the provider answers in this
\* specification: one turn, one vector; the interleavings are the subject.
ConcurrentTurn == [role |-> "user", text |-> <<"x">>]
ConcurrentVector == <<1, 0>>

NextConcurrent ==
    \/ Len(inflight) < MaxInFlight /\ append(ConcurrentTurn)
    \/ Len(inflight) < MaxInFlight /\ query(NoOpts)
    \/ Len(inflight) < MaxInFlight /\ close
    \/ \E i \in 1..Len(inflight) : flushChunkResolved(i, ConcurrentVector)
    \/ \E i \in 1..Len(inflight) : closeResolved(i, ConcurrentVector)
    \/ \E i \in 1..Len(inflight) : queryResolved(i, ConcurrentVector)
    \/ \E i \in 1..Len(inflight) : flushChunkRejected(i)
    \/ \E i \in 1..Len(inflight) : queryRejected(i)

SpecConcurrent == InitConcurrent /\ [][NextConcurrent]_vars

\* ------------------------------------------------------ AppendLog on its own
\* The lines a caller may hand to AppendLog.append.
Lines == { stringify(t) : t \in Turns }

\* The ranges AppendLog.read may be called with, inside the file and past
\* its end.
ReadOffsets == 0..(Len(logFile) + 1)
ReadLengths == 0..(2 * MinChunk)

\* The range returned without the byte of the terminator.
appended_noTerminator(offset, data) ==
    [offset |-> offset, length |-> Len(data) - 1]

\* What AppendLog.append returns: { offset, length: buf.byteLength }.
appended(offset, data) == [offset |-> offset, length |-> Len(data)]

\* An AppendLog on an empty directory.
InitLog == Init /\ chunkSize = MinChunk

\* new AppendLog(dir): openSync in mode a+, the position from fstat.
logOpen ==
    /\ alive
    /\ ~fdOpen
    /\ fdOpen' = TRUE
    /\ currentOffset' = Len(logFile)
    /\ ret' = Returned("log.open", <<>>)
    /\ UNCHANGED <<disk, alive, pendingBatches, chunkSize, chunkState, inflight,
                   failed,
                   embeddedEnd>>

\* AppendLog.append(line).
logAppend(line) ==
    /\ alive
    /\ lineCount < MaxTurns
    /\ IF ~fdOpen
       THEN /\ ret' = Thrown("log.append", EBADF)
            /\ UNCHANGED <<disk, currentOffset>>
       ELSE LET data   == lineData(line)
                offset == currentOffset
            IN  /\ logFile' = logFile \o data
                /\ currentOffset' = currentOffset + Len(data)
                /\ ret' = Returned("log.append", <<appended(offset, data)>>)
                /\ UNCHANGED indexFile
    /\ UNCHANGED <<alive, fdOpen, pendingBatches, chunkSize, chunkState,
                   inflight, failed,
                   embeddedEnd>>

\* AppendLog.read(offset, length), through a descriptor of its own.
logRead(offset, length) ==
    /\ alive
    /\ ret' = Returned("log.read", read(logFile, offset, length))
    /\ UNCHANGED <<disk, alive, fdOpen, currentOffset, pendingBatches, chunkSize,
                   chunkState, inflight, failed,
                   embeddedEnd>>

\* AppendLog.close().
logClose ==
    /\ alive
    /\ IF fdOpen
       THEN fdOpen' = FALSE /\ ret' = Returned("log.close", <<>>)
       ELSE UNCHANGED fdOpen /\ ret' = Thrown("log.close", EBADF)
    /\ UNCHANGED <<disk, alive, currentOffset, pendingBatches, chunkSize,
                   chunkState, inflight, failed,
                   embeddedEnd>>

NextLog ==
    \/ \E line \in Lines : logAppend(line)
    \/ \E offset \in ReadOffsets, length \in ReadLengths : logRead(offset, length)
    \/ logClose
    \/ logOpen

SpecLog == InitLog /\ [][NextLog]_vars

\* ------------------------------------------------- topKSimilarity on its own
\* The vectors a search is tried on: norms that are whole numbers, scores
\* below, at and above zero, two vectors of one direction, and the zero
\* vector.
SearchVectors == { <<0, 0>>, <<1, 0>>, <<2, 0>>, <<0, 1>>, <<3, 4>>, <<-1, 0>> }

RECURSIVE SeqsUpTo(_, _)
SeqsUpTo(S, n) ==
    IF n = 0 THEN { <<>> }
    ELSE LET shorter == SeqsUpTo(S, n - 1)
         IN  shorter \cup { Append(q, x) : q \in shorter, x \in S }

\* The stored vectors with their norms as entriesToBatch computes them, at
\* most one row for each line a log may hold.
SearchRows ==
    SeqsUpTo({ [vector |-> v, norm |-> norm(v)] : v \in SearchVectors }, MaxTurns)

\* The values of topK a search is called with.
SearchTopKs == (0 - 1)..(MaxTurns + 1)

\* A call topKSimilarity(query, vectors, norms, topK) about to run.
InitTopK ==
    /\ logFile = <<>>
    /\ indexFile = NoFile
    /\ alive = TRUE
    /\ fdOpen = TRUE
    /\ currentOffset = 0
    /\ pendingBatches = <<>>
    /\ chunkSize = MinChunk
    /\ chunkStartOffset = 0
    /\ bytesSinceLastEmbed = 0
    /\ inflight \in { <<[op |-> "topK", query |-> q, rows |-> r, topK |-> k]>> :
                        q \in SearchVectors, r \in SearchRows, k \in SearchTopKs }
    /\ ret = Returned("open", <<>>)
    /\ failed = <<>>
    /\ embeddedEnd = 0

\* The call runs and returns its hits; its arguments stay on record.
topKCall ==
    /\ Len(inflight) = 1
    /\ inflight[1].op = "topK"
    /\ ret' = Returned("topK",
                 topKSimilarity(inflight[1].query, inflight[1].rows, inflight[1].topK))
    /\ UNCHANGED inflight
    /\ UNCHANGED <<disk, alive, fdOpen, currentOffset, pendingBatches, chunkSize,
                   chunkState, failed,
                   embeddedEnd>>

NextTopK == topKCall

SpecTopK == InitTopK /\ [][NextTopK]_vars

\* ------------------------------------------------- EmbeddingIndex on its own
\* The entries a caller may hand to EmbeddingIndex.append, and the lists of
\* them one call may carry (the empty list included).
IndexEntries ==
    { [vector |-> <<1, 0>>, offset |-> 0, length |-> MinChunk],
      [vector |-> <<0, 0>>, offset |-> MinChunk, length |-> MinChunk] }

EntryLists == SeqsUpTo(IndexEntries, 2)

\* What readAll returns: four parallel arrays, filled row by row.
IndexData(rows) ==
    [vectors |-> [i \in 1..Len(rows) |-> rows[i].vector],
     norms   |-> [i \in 1..Len(rows) |-> rows[i].norm],
     offsets |-> [i \in 1..Len(rows) |-> rows[i].offset],
     lengths |-> [i \in 1..Len(rows) |-> rows[i].length]]

\* The size an index may reach: at most MaxTurns rows on disk and in the
\* buffer, and no more bytes than MaxTurns batches of one row take; nothing
\* more is appended once the file cannot be read.
IndexFull(entries) ==
    \/ indexFile.exists /\ ~ReadStream(indexFile.bytes).ok
    \/ Len(persistedRows) + Len(bufferedRows) + Len(entries) > MaxTurns
    \/ Len(indexFile.bytes) + RowSize * (Len(bufferedRows) + Len(entries))
          > schemaHeaderSize + EOS_SIZE + MaxTurns * (RowSize + 2)

\* statSync and truncateSync of flush: the file without its last EOS_SIZE
\* bytes.
truncateEOS(file) ==
    [exists |-> TRUE,
     bytes  |-> SubSeq(file.bytes, 1, Max(Len(file.bytes) - EOS_SIZE, 0))]

\* An EmbeddingIndex on an empty directory.
InitIndex == Init /\ chunkSize = MinChunk

\* EmbeddingIndex.append(entries).
indexAppend(entries) ==
    /\ alive
    /\ ~IndexFull(entries)
    /\ pendingBatches' =
          IF Len(entries) = 0 THEN pendingBatches
          ELSE Append(pendingBatches, entriesToBatch(entries))
    /\ ret' = Returned("index.append", <<>>)
    /\ UNCHANGED <<disk, alive, fdOpen, currentOffset, chunkSize, chunkState,
                   inflight, failed, embeddedEnd>>

\* EmbeddingIndex.flush().
indexFlush ==
    /\ alive
    /\ indexFile' = flushFile(indexFile, pendingBatches)
    /\ pendingBatches' = <<>>
    /\ ret' = Returned("index.flush", <<>>)
    /\ UNCHANGED <<logFile, alive, fdOpen, currentOffset, chunkSize, chunkState,
                   inflight, failed, embeddedEnd>>

\* EmbeddingIndex.readAll().
indexReadAll ==
    /\ alive
    /\ LET all == readAll(indexFile, pendingBatches)
       IN  ret' = IF all.ok
                  THEN Returned("index.readAll", <<IndexData(all.rows)>>)
                  ELSE Thrown("index.readAll", FormatError)
    /\ UNCHANGED <<disk, alive, fdOpen, currentOffset, pendingBatches, chunkSize,
                   chunkState, inflight, failed, embeddedEnd>>

NextIndex ==
    \/ \E entries \in EntryLists : indexAppend(entries)
    \/ indexFlush
    \/ indexReadAll

SpecIndex == InitIndex /\ [][NextIndex]_vars

\* The EmbeddingIndex with a process that can die inside flush.
InitIndexCrash == InitIndex

\* flush stopped between truncateSync and appendFileSync: the old marker is
\* cut off, nothing is appended, and the process and its buffer are gone.
indexCrashInFlush ==
    /\ alive
    /\ pendingBatches # <<>>
    /\ indexFile.exists
    /\ indexFile' = truncateEOS(indexFile)
    /\ pendingBatches' = <<>>
    /\ alive' = FALSE
    /\ ret' = Thrown("crash", "exit")
    /\ UNCHANGED <<logFile, fdOpen, currentOffset, chunkSize, chunkState,
                   inflight, failed, embeddedEnd>>

\* new EmbeddingIndex(dir, dim) in a new process: an empty buffer, the file
\* as it was left.
indexOpen ==
    /\ ~alive
    /\ alive' = TRUE
    /\ pendingBatches' = <<>>
    /\ ret' = Returned("index.open", <<>>)
    /\ UNCHANGED <<disk, fdOpen, currentOffset, chunkSize, chunkState,
                   inflight, failed, embeddedEnd>>

NextIndexCrash ==
    \/ \E entries \in EntryLists : indexAppend(entries)
    \/ indexFlush
    \/ indexReadAll
    \/ indexCrashInFlush
    \/ indexOpen

SpecIndexCrash == InitIndexCrash /\ [][NextIndexCrash]_vars

\* ------------------------------------------------------------- properties
\* Every row starts where the row before it ends, the first one at 0.
Tiles(rows) ==
    \A i \in 1..Len(rows) :
        rows[i].offset =
            IF i = 1 THEN 0 ELSE rows[i - 1].offset + rows[i - 1].length

\* Kinds of step, told by what they do to the state.
OpenStep == ~fdOpen /\ fdOpen'
RowAdded == Len(indexRows') = Len(indexRows) + 1
NewRow == indexRows'[Len(indexRows')]
AppendWrote == logFile' # logFile
FlushInFlight == \E i \in 1..Len(inflight) : inflight[i].op \in {"append", "close"}
QueryCalled ==
    \E o \in Opts : inflight' = Append(inflight, [op |-> "query", opts |-> o])
Settled(op, i) ==
    /\ i \in 1..Len(inflight)
    /\ inflight[i].op = op
    /\ inflight' = Remove(inflight, i)
    /\ alive'
QuerySettled == \E i \in 1..Len(inflight) : Settled("query", i)

\* C1: the rows of the index, persisted then buffered, tile a prefix of the
\* log: the first starts at 0, each later one starts at the end of the one
\* before, and the last ends at or before the log position.
C1_RowsTileLogPrefix ==
    /\ Tiles(indexRows)
    /\ MaxEnd(indexRows) <= Len(logFile)
    /\ alive => MaxEnd(indexRows) <= currentOffset

\* C1 witness: a store reopened after close holds a persisted row and a
\* buffered row.
C1_Witness ==
    /\ persistedRows # <<>>
    /\ bufferedRows # <<>>
    /\ ret = Returned("append", <<>>)

C3_CloseCoversLog ==
    ret = Returned("close", <<>>) =>
        /\ pendingBatches = <<>>
        /\ MaxEnd(persistedRows) = currentOffset
        /\ currentOffset = Len(logFile)

\* C3 witness: close() returned and the last persisted row is a final chunk
\* smaller than the chunk size.
C3_Witness ==
    /\ ret = Returned("close", <<>>)
    /\ persistedRows # <<>>
    /\ persistedRows[Len(persistedRows)].length < chunkSize

\* The count is at or over the chunk size while the store neither flushes
\* nor is about to: no flushChunk is awaiting its embed.
OverThreshold ==
    alive /\ ~FlushInFlight /\ bytesSinceLastEmbed >= chunkSize

\* An append that wrote its line started a flush of the whole un-flushed
\* range exactly when the count it left is at or over the chunk size.
AppendFlushesAtThreshold ==
    AppendWrote =>
        IF bytesSinceLastEmbed' >= chunkSize
        THEN /\ Len(inflight') = Len(inflight) + 1
             /\ inflight'[Len(inflight')].op = "append"
             /\ inflight'[Len(inflight')].offset = chunkStartOffset
             /\ inflight'[Len(inflight')].length = bytesSinceLastEmbed'
        ELSE /\ inflight' = inflight
             /\ ~RowAdded

\* A flush that added its row left the count 0 and the chunk start at the
\* log position, just after the flushed range; a row added by append (the
\* descriptor stays open) is at least a chunk size long.
FlushEffect ==
    RowAdded =>
        /\ bytesSinceLastEmbed' = 0
        /\ chunkStartOffset' = currentOffset'
        /\ NewRow.offset + NewRow.length = chunkStartOffset'
        /\ fdOpen' => NewRow.length >= chunkSize

\* C4 as stated: a flush happens exactly when the count first reaches the
\* chunk size, so the count is never found at or over the chunk size without
\* a flush in progress (a flush whose embed was rejected set aside); a flush
\* below the chunk size happens at close only, and a flush leaves the chunk
\* start at the log position and the count 0.
C4_FlushAtFirstCrossing ==
    [][ /\ AppendFlushesAtThreshold
        /\ FlushEffect
        /\ ~(OverThreshold' /\ failed' = <<>>) ]_vars

\* C4 amended: every append that leaves the count at or over the chunk size
\* starts a flush before it returns and no other append does; a flush that
\* succeeds leaves the chunk start at the log position and the count 0; the
\* count comes to rest at or over the chunk size only when the embed of a
\* flush was rejected or when open() recovered such a tail.
C4_FlushOnAppendAtThreshold ==
    [][ /\ AppendFlushesAtThreshold
        /\ FlushEffect
        /\ (OverThreshold' /\ ~OverThreshold) =>
              \/ OpenStep
              \/ /\ FlushInFlight
                 /\ ret'.status = "error"
                 /\ ret'.error = EmbeddingError
                 /\ ret'.op \in {"append", "close"} ]_vars

\* C4 witness: an append returned after a flush at exactly the chunk size,
\* reached by more than one line.
C4_Witness ==
    /\ ret = Returned("append", <<>>)
    /\ bytesSinceLastEmbed = 0
    /\ bufferedRows # <<>>
    /\ bufferedRows[Len(bufferedRows)].length = chunkSize
    /\ chunkStartOffset = currentOffset
    /\ lineCount >= 2

\* C5: when an append that crossed the threshold has returned, the row of
\* its chunk is in the embeddings.arrow file on disk.
C5_RowOnDiskWhenAppendReturns ==
    (alive /\ ret = Returned("append", <<>>) /\ bytesSinceLastEmbed = 0
       /\ currentOffset > 0)
        => MaxEnd(persistedRows) = currentOffset

\* C6: when the flush an append started ends without adding a row (the embed
\* was rejected), append throws that error, the log keeps the bytes of the
\* turn, neither the file nor the buffer of the index changes, and the chunk
\* start and the count still describe the range from chunk start to the log
\* position.
C6_FailedFlushKeepsChunk ==
    [][ \A i \in 1..Len(inflight) :
          (Settled("append", i) /\ Len(indexRows') = Len(indexRows)) =>
              /\ ret' = Thrown("append", EmbeddingError)
              /\ UNCHANGED <<logFile, indexFile, pendingBatches, chunkState>>
              /\ chunkStartOffset' = inflight[i].offset
              /\ bytesSinceLastEmbed' = inflight[i].length
              /\ chunkStartOffset' + bytesSinceLastEmbed' = currentOffset'
              /\ read(logFile', inflight[i].offset, inflight[i].length)
                    = inflight[i].chunkText ]_vars

\* C6 witness: append threw on an open store and the whole un-flushed range
\* is still counted.
C6_Witness ==
    /\ ret = Thrown("append", EmbeddingError)
    /\ fdOpen
    /\ bytesSinceLastEmbed >= chunkSize
    /\ chunkStartOffset + bytesSinceLastEmbed = currentOffset

\* C7: after the embed of a flush was rejected, the chunk is retried from an
\* unchanged chunk start, by the next append, by close, or by the next open()
\* of the store: as long as no row covers the failed chunk, a live store has
\* its chunk start where the failed chunk starts and counts all its bytes.
C7_RetryFromUnchangedStart ==
    (alive /\ failed # <<>>) =>
        /\ chunkStartOffset = failed[1].offset
        /\ chunkStartOffset + bytesSinceLastEmbed
              >= failed[1].offset + failed[1].length

\* C8 as stated: a query that settles on an index of zero rows returns the
\* empty list and throws nothing.
C8_EmptyIndexQueryNeverThrows ==
    [][ (QuerySettled /\ indexRows = <<>>) => ret' = Returned("query", <<>>) ]_vars

\* C8 amended: a query that settles on an index of zero rows returns the
\* empty list, unless the embed of the query text was rejected: then it
\* throws that error, and it throws no other.
C8_EmptyIndexQueryEmptyOrEmbedError ==
    [][ (QuerySettled /\ indexRows = <<>>) =>
            \/ ret' = Returned("query", <<>>)
            \/ ret' = Thrown("query", EmbeddingError) ]_vars

\* C8 witness: a query returned the empty list on a store that has turns in
\* the log below the threshold and no row.
C8_Witness ==
    /\ ret = Returned("query", <<>>)
    /\ indexRows = <<>>
    /\ bytesSinceLastEmbed > 0
    /\ bytesSinceLastEmbed < chunkSize

\* C9: a query, from its call to its return or its throw, leaves the log,
\* the log position, the chunk start, the count, the buffered rows and the
\* index file as they are, and what settles is the query itself.
C9_QueryReadOnly ==
    [][ (QueryCalled \/ QuerySettled) =>
            /\ UNCHANGED <<logFile, currentOffset, chunkStartOffset,
                           bytesSinceLastEmbed, pendingBatches, indexFile>>
            /\ QuerySettled =>
                  /\ ret'.op = "query"
                  /\ ret'.status = "error" => ret'.error = EmbeddingError ]_vars

\* C9 witness: a query returned hits while rows are buffered, rows are
\* persisted and bytes are counted.
C9_Witness ==
    /\ ret.op = "query"
    /\ ret.status = "ok"
    /\ ret.value # <<>>
    /\ pendingBatches # <<>>
    /\ persistedRows # <<>>

\* The (offset, length) ranges of rows or of results.
Ranges(s) == { <<s[i].offset, s[i].length>> : i \in 1..Len(s) }
NonZeroRows(rows) == SelectSeq(rows, LAMBDA r : r.norm # 0)

\* C10: every result of a query is the range of a row the index held when
\* it was read, persisted or buffered, and ends at or before the chunk
\* start, so no byte appended since the last flush is in a result; and a
\* query that returns hits with the default topK over at most 5 rows returns
\* every row of nonzero norm, the buffered ones as the persisted ones.
C10_ResultsAreFlushedChunks ==
    [][ (QuerySettled /\ ret'.status = "ok") =>
            /\ Ranges(ret'.value) \subseteq Ranges(indexRows)
            /\ \A k \in 1..Len(ret'.value) :
                  ret'.value[k].offset + ret'.value[k].length <= chunkStartOffset
            /\ (ret'.value # <<>> /\ inflight[1].opts = NoOpts
                  /\ Len(indexRows) <= 5) =>
                  Ranges(ret'.value) = Ranges(NonZeroRows(indexRows)) ]_vars

\* C10 witness: a query returned a persisted chunk and a buffered chunk
\* while bytes appended since the last flush wait in the log.
C10_Witness ==
    /\ ret.op = "query"
    /\ ret.status = "ok"
    /\ Len(ret.value) = 2
    /\ Len(persistedRows) = 1
    /\ Len(bufferedRows) = 1
    /\ bytesSinceLastEmbed > 0

\* The range [offset, offset + length) of a file is a run of whole lines: it
\* has bytes, lies inside the file, starts at the start of the file or just
\* after a terminator, and ends just after a terminator.
WholeLines(file, offset, length) ==
    /\ length > 0
    /\ offset + length <= Len(file)
    /\ offset = 0 \/ file[offset] = LF
    /\ file[offset + length] = LF

\* A line that parses as a turn a caller can have appended.
IsTurnLine(line) ==
    /\ parse(line).ok
    /\ \E t \in Turns :
          /\ parse(line).value.role = t.role
          /\ parse(line).value.text = t.text

\* C11: every result a query returns carries the range of a row of the
\* index and, as its text, the bytes of the log in that range; the range is
\* a run of whole lines, and every line of the text parses as a turn with a
\* role and a text.
C11_ResultsAreWholeTurns ==
    [][ (QuerySettled /\ ret'.status = "ok") =>
            \A k \in 1..Len(ret'.value) :
                LET r == ret'.value[k]
                    lines == splitLines(r.text, <<>>)
                IN  /\ <<r.offset, r.length>> \in Ranges(indexRows)
                    /\ WholeLines(logFile, r.offset, r.length)
                    /\ r.text = SubSeq(logFile, r.offset + 1, r.offset + r.length)
                    /\ \A j \in 1..Len(lines) : IsTurnLine(lines[j]) ]_vars

\* C11 witness: a query returned a chunk of two lines, one of them a turn
\* whose text holds a line feed.
C11_Witness ==
    /\ ret.op = "query"
    /\ ret.status = "ok"
    /\ \E k \in 1..Len(ret.value) :
          LET lines == splitLines(ret.value[k].text, <<>>)
          IN  /\ Len(lines) = 2
              /\ \E j \in 1..2 : parse(lines[j]).ok
                                    /\ parse(lines[j]).value.text = <<LF>>

\* The scores of a list of hits or results never go up.
ScoresNonIncreasing(res) ==
    \A k \in 1..(Len(res) - 1) : ~Greater(res[k + 1].score, res[k].score)

\* A search that ran: its call and what it returned.
TopKReturned ==
    Len(inflight) = 1 /\ inflight[1].op = "topK" /\ ret'.op = "topK"

\* C12: a search never returns more than topK hits (none for a topK below
\* 1) nor more hits than there are stored rows, and the hits are in
\* non-increasing order of score.
C12_AtMostTopKSorted ==
    [][ TopKReturned =>
            /\ Len(ret'.value) <= Max(inflight[1].topK, 0)
            /\ Len(ret'.value) <= Len(inflight[1].rows)
            /\ ScoresNonIncreasing(ret'.value) ]_vars

\* Two turns were appended to an empty store and stay below the threshold:
\* two lines in the log, no row, all bytes counted from chunk start 0.
TwoTurnsBelowThreshold ==
    /\ lineCount = 2
    /\ indexRows = <<>>
    /\ chunkStartOffset = 0
    /\ bytesSinceLastEmbed = Len(logFile)
    /\ bytesSinceLastEmbed < chunkSize

\* The index is one persisted row that covers the two lines of the log.
OneChunkOfBoth ==
    /\ lineCount = 2
    /\ bufferedRows = <<>>
    /\ Len(persistedRows) = 1
    /\ persistedRows[1].offset = 0
    /\ persistedRows[1].length = Len(logFile)

\* A list of results that is the one chunk covering the whole log.
IsWholeLogChunk(value) ==
    /\ Len(value) = 1
    /\ value[1].offset = 0
    /\ value[1].length = Len(logFile)
    /\ value[1].text = logFile

\* C13: two turns below the threshold, close(), reopen, query.  A close that
\* returns on such a store leaves one persisted row (0, bytes of both
\* lines); a store reopened after a close starts with its chunk start at the
\* log end and a count of 0 and with the files as close left them; a query
\* on it with the default topK, where neither the query nor the chunk
\* embedded to the zero vector, returns exactly that one chunk, and no query
\* returns anything but that chunk.
C13_CloseReopenOneChunk ==
    [][ /\ ((\E i \in 1..Len(inflight) : Settled("close", i))
              /\ ret'.status = "ok" /\ TwoTurnsBelowThreshold)
            => OneChunkOfBoth'
        /\ (OpenStep /\ alive) =>
              /\ UNCHANGED disk
              /\ chunkStartOffset' = Len(logFile)
              /\ currentOffset' = Len(logFile)
              /\ bytesSinceLastEmbed' = 0
              /\ pendingBatches' = <<>>
              /\ (OneChunkOfBoth /\ persistedRows[1].norm # 0) =>
                    \A v \in Vectors :
                        norm(v) # 0 =>
                            IsWholeLogChunk(
                                queryReturn(v, NoOpts, indexFile, <<>>).value)
        /\ (QuerySettled /\ ret'.status = "ok" /\ OneChunkOfBoth) =>
              \/ ret'.value = <<>>
              \/ IsWholeLogChunk(ret'.value) ]_vars

\* C13 witness: on a store reopened after close a query returned the one
\* chunk that holds both lines, which are shorter than the chunk size.
C13_Witness ==
    /\ ret.op = "query"
    /\ ret.status = "ok"
    /\ IsWholeLogChunk(ret.value)
    /\ Len(splitLines(ret.value[1].text, <<>>)) = 2
    /\ OneChunkOfBoth
    /\ Len(logFile) < chunkSize
    /\ fdOpen
    /\ chunkStartOffset = Len(logFile)
    /\ bytesSinceLastEmbed = 0

\* The lines of the log after an append are the lines before it and one
\* more, the last.
OneLineAdded ==
    LET lines == splitLines(logFile', <<>>)
    IN  /\ lines # <<>>
        /\ SubSeq(lines, 1, Len(lines) - 1) = splitLines(logFile, <<>>)
        /\ Len(lines) = lineCount'
        /\ logFile'[Len(logFile')] = LF

LastLine == LET lines == splitLines(logFile', <<>>) IN lines[Len(lines)]

\* C14: an append of turn t adds exactly one line at the end of the log and
\* leaves the lines before it, so n appends leave n lines in append order;
\* the line added, parsed, is the turn t as it was appended, the object
\* { role, text }.
C14_LinesAreTurnsAppended ==
    [][ \A t \in Turns :
          (logFile' = logFile \o lineData(stringify(t)) /\ AppendWrote) =>
              /\ OneLineAdded
              /\ parse(LastLine).ok
              /\ parse(LastLine).value = t ]_vars

\* C15: a query on a store object whose close() has returned throws nothing
\* but a rejection of the embedding provider; when it returns, its results
\* are rows persisted in the index file, each with the bytes of the log in
\* its range, and with the default topK a query that has hits returns every
\* persisted row of nonzero norm.
C15_QueryAfterClose ==
    [][ (QuerySettled /\ alive /\ ~fdOpen) =>
            /\ pendingBatches = <<>>
            /\ ret'.error \in {"none", EmbeddingError}
            /\ ret'.error = "none" =>
                  /\ ret'.status = "ok"
                  /\ Ranges(ret'.value) \subseteq Ranges(persistedRows)
                  /\ \A k \in 1..Len(ret'.value) :
                        ret'.value[k].text =
                            SubSeq(logFile, ret'.value[k].offset + 1,
                                   ret'.value[k].offset + ret'.value[k].length)
                  /\ (ret'.value # <<>> /\ inflight[1].opts = NoOpts
                        /\ Len(persistedRows) <= 5) =>
                        Ranges(ret'.value) = Ranges(NonZeroRows(persistedRows)) ]_vars

\* C15 witness: after close() returned, a query on the closed store
\* returned two persisted chunks.
C15_Witness ==
    /\ alive
    /\ ~fdOpen
    /\ ret.op = "query"
    /\ ret.status = "ok"
    /\ Len(ret.value) = 2
    /\ Len(persistedRows) = 2

\* A close() called on an open store ends in this step: after the embed of
\* its final chunk settled, or at once when no chunk was pending.
CloseEnded ==
    /\ alive
    /\ fdOpen
    /\ alive'
    /\ \/ \E i \in 1..Len(inflight) : Settled("close", i)
       \/ Idle /\ Idle' /\ ret'.op = "close"

\* C16: a close() on an open store, whatever failed before it and whether
\* or not the flush of its own final chunk succeeds, ends with the
\* descriptor of the log closed and no row left in the buffer of the index.
C16_CloseReleasesBoth ==
    [][ CloseEnded => (~fdOpen' /\ pendingBatches' = <<>>) ]_vars

\* C17: a close() called on a store whose close() has returned changes
\* nothing and throws nothing: it returns as the first one did.
C17_SecondCloseNoOp ==
    [][ (alive /\ ~fdOpen /\ Idle /\ Idle' /\ alive'
           /\ ret = Returned("close", <<>>) /\ ret'.op = "close") =>
            /\ ret'.status = "ok"
            /\ UNCHANGED <<disk, fdOpen, currentOffset, pendingBatches,
                           chunkState>> ]_vars

\* A step of close() called on an idle store: it starts the embed of a final
\* chunk, or it ends at once.
CloseCalled ==
    /\ alive
    /\ alive'
    /\ Idle
    /\ \/ Len(inflight') = 1 /\ inflight'[1].op = "close"
       \/ Idle' /\ ret'.op = "close"

\* C18: close() on an open store with no byte counted and no row buffered
\* returns without error, starts no embed, leaves the log, the log position
\* and the index file (absent if it was absent, its rows if it had any) as
\* they were, and ends with the descriptor closed.
C18_CloseNothingPending ==
    [][ (CloseCalled /\ fdOpen /\ bytesSinceLastEmbed = 0
           /\ pendingBatches = <<>>) =>
            /\ ret' = Returned("close", <<>>)
            /\ inflight' = <<>>
            /\ UNCHANGED <<logFile, indexFile, currentOffset, chunkState,
                           pendingBatches>>
            /\ ~fdOpen' ]_vars

\* C18 witness: close() returned on a store nothing was ever appended to,
\* and there is no index file.
C18_Witness ==
    /\ ret = Returned("close", <<>>)
    /\ alive
    /\ ~fdOpen
    /\ logFile = <<>>
    /\ ~indexFile.exists

\* AppendLog.append wrote and returned a range in this step.
LogAppended ==
    ret'.op = "log.append" /\ ret'.status = "ok" /\ logFile' # logFile

\* C19: the range AppendLog.append returns starts at the position before
\* the write, which is the end of the file, and its length is the number of
\* bytes the write added, the terminator included; the position moves to the
\* end of the range, so the next range starts where this one ends (ranges
\* strictly increasing, disjoint, contiguous).  Nothing but an append or an
\* open moves the position, and open sets it to the file size, so the
\* position is the size found at open plus the lengths returned since.
C19_AppendRanges ==
    [][ /\ LogAppended =>
              LET r == ret'.value[1]
              IN  /\ r.offset = currentOffset
                  /\ r.offset = Len(logFile)
                  /\ r.length = Len(logFile') - Len(logFile)
                  /\ r.length > 0
                  /\ SubSeq(logFile', 1, Len(logFile)) = logFile
                  /\ logFile'[Len(logFile')] = LF
                  /\ currentOffset' = r.offset + r.length
                  /\ (ret.op = "log.append" /\ ret.status = "ok") =>
                        r.offset = ret.value[1].offset + ret.value[1].length
        /\ currentOffset' # currentOffset =>
              \/ LogAppended
              \/ OpenStep /\ currentOffset' = Len(logFile)
        /\ fdOpen' => currentOffset' = Len(logFile') ]_vars

\* C19 witness: on a log reopened with content, an append returned the
\* range that follows the range of the append before it.
C19_Witness ==
    /\ ret.op = "log.append"
    /\ ret.status = "ok"
    /\ ret.value[1].offset > 0
    /\ ret.value[1].offset + ret.value[1].length = Len(logFile)
    /\ currentOffset = Len(logFile)
    /\ lineCount = MaxTurns

\* C20: AppendLog.read returns data only for a range that lies inside the
\* file: what a read returns is always the bytes of such a range, never
\* short or padded data for a range that reaches past the end of the file.
C20_ReadPastEndFails ==
    [][ (ret'.op = "log.read" /\ ret'.status = "ok") =>
            \E o \in 0..Len(logFile), n \in 0..Len(logFile) :
                /\ o + n <= Len(logFile)
                /\ ret'.value = SubSeq(logFile, o + 1, o + n) ]_vars

\* a is a prefix of b.
IsPrefix(a, b) == Len(a) <= Len(b) /\ SubSeq(b, 1, Len(a)) = a

\* C21: every step of the store, open and reopen included, leaves the log
\* as it was or longer with its old content as a prefix; so the log at any
\* earlier time is a prefix of the log at any later time.
C21_LogOnlyExtended ==
    [][ /\ IsPrefix(logFile, logFile')
        /\ OpenStep => logFile' = logFile ]_vars

\* C21 witness: a store reopened on a log with content has appended to it.
C21_Witness ==
    /\ ret = Returned("append", <<>>)
    /\ currentOffset = Len(logFile)
    /\ persistedRows # <<>>
    /\ MaxEnd(indexRows) < Len(logFile)
    /\ lineCount = MaxTurns

\* The entries as rows, each with the norm of its vector.
RowsOf(entries) == entriesToBatch(entries)

\* Steps of an EmbeddingIndex, told by what they return.
IndexStep(op) == alive /\ alive' /\ ret'.op = op

\* C22: readAll returns four arrays of one length whose i-th elements are
\* the vector, norm, offset and length of the i-th row, persisted rows first
\* and buffered rows after them.  An append adds its entries, in order, at
\* the end of what readAll returns and changes nothing before them; a flush
\* empties the buffer and leaves what readAll returns as it was; so readAll
\* returns every entry appended once, in append order.  With no file and
\* nothing buffered it returns empty arrays and throws nothing.
C22_ReadAllEveryEntryOnce ==
    [][ /\ \A entries \in EntryLists :
              (IndexStep("index.append") /\ ~IndexFull(entries)
                 /\ pendingBatches' =
                       IF Len(entries) = 0 THEN pendingBatches
                       ELSE Append(pendingBatches, entriesToBatch(entries))) =>
                  /\ readAll(indexFile', pendingBatches').ok
                  /\ readAll(indexFile', pendingBatches').rows =
                        readAll(indexFile, pendingBatches).rows \o RowsOf(entries)
        /\ IndexStep("index.flush") =>
              /\ pendingBatches' = <<>>
              /\ readAll(indexFile', pendingBatches').ok
              /\ readAll(indexFile', pendingBatches').rows =
                    readAll(indexFile, pendingBatches).rows
              /\ persistedRows' = persistedRows \o bufferedRows
        /\ IndexStep("index.readAll") =>
              /\ ret'.status = "ok"
              /\ LET data == ret'.value[1]
                     rows == persistedRows \o bufferedRows
                 IN  /\ Len(data.vectors) = Len(rows)
                     /\ Len(data.norms) = Len(rows)
                     /\ Len(data.offsets) = Len(rows)
                     /\ Len(data.lengths) = Len(rows)
                     /\ \A i \in 1..Len(rows) :
                           /\ data.vectors[i] = rows[i].vector
                           /\ data.norms[i] = norm(rows[i].vector)
                           /\ data.offsets[i] = rows[i].offset
                           /\ data.lengths[i] = rows[i].length
              /\ (~indexFile.exists /\ pendingBatches = <<>>) =>
                    ret'.value[1] = IndexData(<<>>) ]_vars

\* C22 witness: readAll returned two persisted rows and then a buffered
\* row whose offset differs from its length.
C22_Witness ==
    /\ ret.op = "index.readAll"
    /\ ret.status = "ok"
    /\ Len(persistedRows) = 2
    /\ Len(bufferedRows) = 1
    /\ Len(ret.value[1].offsets) = 3
    /\ ret.value[1].offsets[3] # ret.value[1].lengths[3]

\* The candidates of a search: the stored rows that get a score.
Candidates(call) ==
    IF norm(call.query) = 0 THEN 0 ELSE Len(NonZeroRows(call.rows))

\* C23: a search with topK at or below 0 returns no hit; with topK above
\* the number of candidates it returns them all; otherwise it returns
\* exactly topK hits.
C23_TopKCounts ==
    [][ TopKReturned =>
            LET k == inflight[1].topK
                c == Candidates(inflight[1])
                n == Len(ret'.value)
            IN  IF k <= 0 THEN n = 0
                ELSE IF k > c THEN n = c
                ELSE n = k ]_vars

\* C24: a search with a query of norm zero returns no hit; no hit is a
\* stored row whose stored norm is zero; and the divisor of every score,
\* the product of the two norms, is not zero.
C24_NoZeroNorms ==
    [][ TopKReturned =>
            LET call == inflight[1]
            IN  /\ norm(call.query) = 0 => ret'.value = <<>>
                /\ \A h \in 1..Len(ret'.value) :
                      LET row == call.rows[ret'.value[h].index + 1]
                      IN  /\ row.norm # 0
                          /\ ret'.value[h].score.den = norm(call.query) * row.norm
                          /\ ret'.value[h].score.den # 0 ]_vars

\* C24 witness: a search over three rows, the second of norm zero, with a
\* topK that cuts nothing, returned the first and the third.
C24_Witness ==
    /\ ret.op = "topK"
    /\ Len(inflight) = 1
    /\ Len(inflight[1].rows) = 3
    /\ inflight[1].rows[2].norm = 0
    /\ inflight[1].topK >= 3
    /\ { ret.value[h].index : h \in 1..Len(ret.value) } = {0, 2}

\* A score of exactly 1, and a score of at most 1 (the divisor is positive).
ScoreIsOne(score) == score.num = score.den
ScoreAtMostOne(score) == score.num <= score.den

\* The stored rows equal to the query, and those that get the score 1.
EqualRows(call) ==
    { i \in 1..Len(call.rows) : call.rows[i].vector = call.query }
TopRows(call) ==
    { i \in 1..Len(call.rows) :
          /\ call.rows[i].norm # 0
          /\ ScoreIsOne(Score(dot(call.query, call.rows[i].vector),
                              norm(call.query) * call.rows[i].norm)) }
First(S) == CHOOSE i \in S : \A j \in S : i <= j

\* A search the claim is about: topK at least 1, a query that is not the
\* zero vector and equals a stored vector.
EqualVectorSearch ==
    /\ TopKReturned
    /\ inflight[1].topK >= 1
    /\ norm(inflight[1].query) # 0
    /\ EqualRows(inflight[1]) # {}

\* C25 as stated: the stored vector equal to the query (the first one, if
\* it is stored more than once) has the score 1, no hit has a greater
\* score, and it is the first hit.
C25_EqualVectorFirst ==
    [][ EqualVectorSearch =>
            /\ ret'.value # <<>>
            /\ ScoreIsOne(ret'.value[1].score)
            /\ \A h \in 1..Len(ret'.value) : ScoreAtMostOne(ret'.value[h].score)
            /\ ret'.value[1].index + 1 = First(EqualRows(inflight[1])) ]_vars

\* C25 amended: the stored vector equal to the query has the score 1 and no
\* hit has a greater score; the first hit has the score 1 and is the earliest
\* stored row of the query's direction, which is the equal vector itself
\* unless a row stored before it has the same direction.
C25_EqualVectorTopScore ==
    [][ EqualVectorSearch =>
            /\ ret'.value # <<>>
            /\ ScoreIsOne(ret'.value[1].score)
            /\ \A h \in 1..Len(ret'.value) : ScoreAtMostOne(ret'.value[h].score)
            /\ EqualRows(inflight[1]) \subseteq TopRows(inflight[1])
            /\ ret'.value[1].index + 1 = First(TopRows(inflight[1]))
            /\ (\A i \in TopRows(inflight[1]) :
                    i >= First(EqualRows(inflight[1]))) =>
                  ret'.value[1].index + 1 = First(EqualRows(inflight[1])) ]_vars

\* C25 witness: the query equals the third stored vector, the rows before
\* it score lower, and it came back first.
C25_Witness ==
    /\ ret.op = "topK"
    /\ Len(inflight) = 1
    /\ inflight[1].topK >= 1
    /\ norm(inflight[1].query) # 0
    /\ EqualRows(inflight[1]) = {3}
    /\ TopRows(inflight[1]) = {3}
    /\ Len(ret.value) >= 2
    /\ ret.value[1].index = 2

\* max(offset + length) over the rows, 0 if there are none.
EndOfRows(rows) ==
    IF rows = <<>> THEN 0
    ELSE LET ends == { rows[i].offset + rows[i].length : i \in 1..Len(rows) }
         IN  CHOOSE e \in ends : \A f \in ends : f <= e

\* C26: every open sets the chunk state from the two files alone: with
\* logEnd the log position (the size of the log) and indexEnd the end of the
\* index rows, chunk start = indexEnd and count = logEnd - indexEnd when
\* indexEnd < logEnd, chunk start = logEnd and count = 0 otherwise.
C26_OpenRecomputesChunkState ==
    [][ OpenStep =>
            LET logEnd   == Len(logFile)
                indexEnd == EndOfRows(persistedRows)
            IN  /\ currentOffset' = logEnd
                /\ indexRows' = persistedRows
                /\ IF indexEnd < logEnd
                   THEN /\ chunkStartOffset' = indexEnd
                        /\ bytesSinceLastEmbed' = logEnd - indexEnd
                   ELSE /\ chunkStartOffset' = logEnd
                        /\ bytesSinceLastEmbed' = 0 ]_vars

\* C26 witness: a store opened on a log with content and no index row
\* counts the whole log from chunk start 0.
C26_Witness ==
    /\ ret = Returned("open", <<>>)
    /\ indexRows = <<>>
    /\ Len(logFile) > 0
    /\ chunkStartOffset = 0
    /\ bytesSinceLastEmbed = Len(logFile)

\* C27: across a crashed session and the one that recovers from it no log
\* byte is embedded more than once: every row added to the index starts at
\* or after the end of the furthest chunk an embedding was already computed
\* for.
C27_NoByteEmbeddedTwice ==
    [][ RowAdded => NewRow.offset >= embeddedEnd ]_vars

\* The batches of the index file, in file order.
FlushedBatches == IF indexFile.exists THEN ReadStream(indexFile.bytes).batches ELSE <<>>

\* One schema header, the batch messages in order, one end-of-stream marker.
Container(batches) ==
    SchemaMsg \o Concat([i \in 1..Len(batches) |-> BatchMsg(batches[i])]) \o EOS

\* C28: a flush leaves the buffer empty.  With nothing buffered it changes
\* nothing.  Otherwise the bytes of an existing file before its old
\* end-of-stream marker stay as they were, and the file afterwards is one
\* schema header, all batches flushed so far in append order and exactly one
\* end-of-stream marker.
C28_FlushKeepsContainer ==
    [][ IndexStep("index.flush") =>
            /\ pendingBatches' = <<>>
            /\ pendingBatches = <<>> => indexFile' = indexFile
            /\ pendingBatches # <<>> =>
                  /\ indexFile'.exists
                  /\ indexFile.exists =>
                        IsPrefix(SubSeq(indexFile.bytes, 1,
                                        Len(indexFile.bytes) - EOS_SIZE),
                                 indexFile'.bytes)
                  /\ indexFile'.bytes =
                        Container(FlushedBatches \o pendingBatches) ]_vars

\* C28 witness: a flush has returned and the file holds at least two
\* batches behind one header.
C28_Witness ==
    /\ ret = Returned("index.flush", <<>>)
    /\ pendingBatches = <<>>
    /\ Len(FlushedBatches) >= 2
    /\ indexFile.bytes = Container(FlushedBatches)

\* C30: a flush onto an existing file gives, byte for byte, the file that
\* one flush of all the batches, the file's and the buffered ones, writes as
\* a new file.
C30_IncrementalEqualsOneShot ==
    [][ IndexStep("index.flush") /\ indexFile.exists /\ pendingBatches # <<>> =>
            indexFile' = flushFile(NoFile, FlushedBatches \o pendingBatches) ]_vars

\* C30 witness: a file of two batches and three rows, the most the bounds
\* allow, after a flush.
C30_Witness ==
    /\ ret = Returned("index.flush", <<>>)
    /\ Len(FlushedBatches) = 2
    /\ Len(persistedRows) = MaxTurns
    /\ indexFile = flushFile(NoFile, FlushedBatches)

\* The schema header and the batch messages written so far, without the
\* end-of-stream marker.
WrittenMessages ==
    SchemaMsg \o
    Concat([i \in 1..Len(FlushedBatches) |-> BatchMsg(FlushedBatches[i])])

C31_OneEmbedInFlight == Len(inflight) <= 1

\* C31: every step of the store either starts exactly one embedding
\* request (an invocation of append at the threshold, of close with a
\* chunk pending, of query), or ends exactly one (the continuation after
\* the provider answered or failed), or leaves the pending requests as
\* they are; so a call made while nothing is pending never leaves more than
\* one request pending, and nothing holds back a call made while one is.
C31_OneEmbedPerCall ==
    [][ /\ \/ inflight' = inflight
           \/ \E i \in 1..Len(inflight') :
                 i = Len(inflight') /\ inflight = SubSeq(inflight', 1, i - 1)
           \/ \E i \in 1..Len(inflight) : inflight' = Remove(inflight, i)
        /\ Idle => Len(inflight') <= 1 ]_vars

\* C31 witness: a query was invoked while the flush of an append was still
\* waiting for the provider; both requests are pending.
C31_Witness ==
    /\ Len(inflight) = 2
    /\ inflight[1].op = "append"
    /\ inflight[2].op = "query"

\* C32: whenever no call of the store is in progress, chunk start + counter
\* is the log position, which is the size of the log, and the chunk starts
\* where the rows of the index end: the open chunk is the un-indexed tail
\* of the log.
C32_OpenChunkIsTail ==
    alive /\ Idle =>
        /\ chunkStartOffset + bytesSinceLastEmbed = currentOffset
        /\ currentOffset = Len(logFile)
        /\ chunkStartOffset = EndOfRows(indexRows)

\* C32 witness: an append whose flush failed, after an earlier flush that
\* succeeded: the failed chunk is still open behind the indexed rows.
C32_Witness ==
    /\ alive /\ Idle
    /\ ret = Thrown("append", EmbeddingError)
    /\ indexRows # <<>>
    /\ chunkStartOffset = EndOfRows(indexRows)
    /\ bytesSinceLastEmbed > 0
    /\ chunkStartOffset + bytesSinceLastEmbed = Len(logFile)

\* C33: when appends are invoked while the flush of an earlier append still
\* waits for the provider, then, once no call is in progress, the rows of
\* the index have contiguous, pairwise disjoint ranges from offset 0, and
\* the chunk state agrees with the log: the chunk starts where the rows end
\* and chunk start + counter is the log position.
C33_ConcurrentAppendsTile ==
    alive /\ Idle =>
        /\ Tiles(indexRows)
        /\ chunkStartOffset = EndOfRows(indexRows)
        /\ chunkStartOffset + bytesSinceLastEmbed = currentOffset

====
